---- MODULE Spec2Model ----
(***************************************************************************)
(* Model of park.py, the Streamlit script of the parkmap repository.       *)
(* The script runs top to bottom once per session: it fetches the road     *)
(* network, validates it, classifies the uploaded parking CSV, samples     *)
(* num_routes random routes, adds the parking markers and renders the map. *)
(* Each block of the script is one action; pc is the position in the       *)
(* script.                                                                 *)
(***************************************************************************)
EXTENDS Integers, Sequences, FiniteSets

(* ---------------- bounds of the model ---------------- *)
MaxNodes == 2
MaxRows == 2
MaxClassifyRows == 4

(* ---------------- program constants ---------------- *)
MinRoutes == 1
MaxRoutes == 5

Required == {"Latitude", "Longitude", "Action"}
CongestedActions == {"Searching", "Left"}
AvailableAction == "Parked"

(* values of an Action cell: the three tags and one unrecognised text *)
ActionValues == {"Searching", "Left", "Parked", "Idle"}
NoCell == "-"

VARIABLES
    pc,             \* position in the script
    snapshot,       \* environment: a persisted snapshot of the region exists
    providerCalls,  \* calls made to ox.graph_from_bbox
    graph,          \* the road network: [nodes, edges]
    edgeErrors,     \* st.error of the graph validation
    successes,      \* st.success of the graph validation
    uploaded_file,  \* TRUE when a CSV has been uploaded
    df,             \* the parsed CSV: [columns, rows]
    congested_df,   \* rows of df kept by the congested mask (index |-> Action)
    available_df,   \* rows of df kept by the available mask (index |-> Action)
    schemaWarnings, \* st.warning of the column check
    stats,          \* the counts written at lines 47-48: <<congested, available>>
    num_routes,     \* value of the slider
    i,              \* iterations of the route loop started so far
    orig_node, dest_node, route,
    polylines,      \* folium.PolyLine objects added to the map
    routeGreen, routeRed,   \* route markers added to marker_cluster
    pathWarnings,   \* st.warning "No path found"
    routeErrors,    \* st.error of the except clause
    parkRed, parkGreen,     \* parking markers added to marker_cluster
    rendered        \* folium_static(m) has been called

vars == <<pc, snapshot, providerCalls, graph, edgeErrors, successes,
          uploaded_file, df, congested_df, available_df, schemaWarnings,
          stats, num_routes, i, orig_node, dest_node, route, polylines, routeGreen,
          routeRed, pathWarnings, routeErrors, parkRed, parkGreen, rendered>>

None == 0
NoGraph == [nodes |-> {}, edges |-> {}, loaded |-> FALSE]
NoFrame == [columns |-> {}, rows |-> << >>]
EmptyFrame == << >>
NoStats == << >>

(* ---------------- road networks the provider can return ---------------- *)
(* Node identifiers are labels, so the networks are taken up to            *)
(* relabelling: n intersections with no road, with a one-way street        *)
(* 1 -> 2 -> ... -> n, or with a two-way street along the same nodes.      *)
Network(n, e) == [nodes |-> 1..n, edges |-> e, loaded |-> TRUE]
OneWay(n) == { <<k, k + 1>> : k \in 1..(n - 1) }
TwoWay(n) == OneWay(n) \cup { <<k + 1, k>> : k \in 1..(n - 1) }

Graphs ==
    UNION { { Network(n, {}), Network(n, OneWay(n)), Network(n, TwoWay(n)) } :
            n \in 0..MaxNodes }

(* nx.has_path: dest is reachable from orig along directed edges; a node   *)
(* always has a path to itself.                                            *)
RECURSIVE ReachFrom(_, _, _)
ReachFrom(g, seen, k) ==
    IF k = 0 THEN seen
    ELSE ReachFrom(g, seen \cup { e[2] : e \in { d \in g.edges : d[1] \in seen } }, k - 1)

has_path(g, o, d) == d \in ReachFrom(g, {o}, Cardinality(g.nodes))

(* nx.shortest_path(weight="length"): the edge lengths are data of the     *)
(* network, so any simple path from orig to dest may be the shortest one.  *)
SimplePaths(g, o, d) ==
    { p \in UNION { [1..k -> g.nodes] : k \in 1..Cardinality(g.nodes) } :
        /\ p[1] = o
        /\ p[Len(p)] = d
        /\ \A a, b \in 1..Len(p) : a # b => p[a] # p[b]
        /\ \A a \in 1..(Len(p) - 1) : <<p[a], p[a + 1]>> \in g.edges }

(* ---------------- uploaded record sets ---------------- *)
RowsOver(vals, n) == UNION { [1..k -> vals] : k \in 0..n }

Headers == (SUBSET Required) \ {{}}

Frames(n) ==
    { [columns |-> c, rows |-> r] :
        c \in { h \in Headers : "Action" \in h },
        r \in RowsOver(ActionValues, n) }
    \cup
    { [columns |-> c, rows |-> r] :
        c \in { h \in Headers : "Action" \notin h },
        r \in RowsOver({NoCell}, n) }

(* df[mask] keeps the rows whose cell satisfies the mask, with their index; *)
(* a derived frame is the function index |-> Action cell of the kept rows.  *)
(* variant: the column check looks at the Action column only *)
SchemaOK_ActionOnly(d) == "Action" \in d.columns

SchemaOK(d) == Required \subseteq d.columns

(* variant: the congested mask forgets the Left tag *)
Congested_DropsLeft(d) ==
    [k \in { j \in DOMAIN d.rows : d.rows[j] = "Searching" } |-> d.rows[k]]

Congested(d) ==
    [k \in { j \in DOMAIN d.rows : d.rows[j] \in CongestedActions } |-> d.rows[k]]
Available(d) ==
    [k \in { j \in DOMAIN d.rows : d.rows[j] = AvailableAction } |-> d.rows[k]]

FrameLen(f) == Cardinality(DOMAIN f)
IsEmpty(f) == DOMAIN f = {}

(* ---------------- initial state ---------------- *)
Init ==
    /\ pc = "load"
    /\ snapshot \in BOOLEAN
    /\ providerCalls = 0
    /\ graph = NoGraph
    /\ edgeErrors = 0
    /\ successes = 0
    /\ uploaded_file = FALSE
    /\ df = NoFrame
    /\ congested_df = EmptyFrame
    /\ available_df = EmptyFrame
    /\ schemaWarnings = 0
    /\ stats = NoStats
    /\ num_routes = None
    /\ i = 0
    /\ orig_node = None
    /\ dest_node = None
    /\ route = << >>
    /\ polylines = 0
    /\ routeGreen = 0
    /\ routeRed = 0
    /\ pathWarnings = 0
    /\ routeErrors = 0
    /\ parkRed = 0
    /\ parkGreen = 0
    /\ rendered = FALSE

(* ---------------- line 20: graph = ox.graph_from_bbox(...) ------------- *)
LoadGraph ==
    /\ pc = "load"
    /\ providerCalls' = providerCalls + 1
    /\ \E g \in Graphs :
        /\ graph' = g
        /\ pc' = "validate"
    /\ UNCHANGED <<snapshot, edgeErrors, successes, uploaded_file, df,
                   congested_df, available_df, schemaWarnings, stats, num_routes, i,
                   orig_node, dest_node, route, polylines, routeGreen,
                   routeRed, pathWarnings, routeErrors, parkRed, parkGreen,
                   rendered>>

(* The provider raises: nothing catches it, the script stops.              *)
LoadGraphRaises ==
    /\ pc = "load"
    /\ providerCalls' = providerCalls + 1
    /\ pc' = "crashed"
    /\ UNCHANGED <<snapshot, graph, edgeErrors, successes, uploaded_file, df,
                   congested_df, available_df, schemaWarnings, stats, num_routes, i,
                   orig_node, dest_node, route, polylines, routeGreen,
                   routeRed, pathWarnings, routeErrors, parkRed, parkGreen,
                   rendered>>

(* ---------------- lines 23-26: validate graph ---------------- *)
ValidateGraph ==
    /\ pc = "validate"
    /\ IF Cardinality(graph.edges) = 0
       THEN edgeErrors' = edgeErrors + 1 /\ UNCHANGED successes
       ELSE successes' = successes + 1 /\ UNCHANGED edgeErrors
    /\ pc' = "classify"
    /\ UNCHANGED <<snapshot, providerCalls, graph, uploaded_file, df,
                   congested_df, available_df, schemaWarnings, stats, num_routes, i,
                   orig_node, dest_node, route, polylines, routeGreen,
                   routeRed, pathWarnings, routeErrors, parkRed, parkGreen,
                   rendered>>

(* ---------------- lines 29-57: data extraction ---------------- *)
(* An uploaded CSV of at most n rows is parsed and classified.             *)
Classify(n) ==
    /\ pc = "classify"
    /\ \E d \in Frames(n) :
        /\ uploaded_file' = TRUE
        /\ df' = d
        /\ IF SchemaOK(d)
           THEN /\ congested_df' = Congested(d)
                /\ available_df' = Available(d)
                /\ stats' = <<FrameLen(congested_df'), FrameLen(available_df')>>
                /\ UNCHANGED schemaWarnings
           ELSE /\ schemaWarnings' = schemaWarnings + 1
                /\ congested_df' = EmptyFrame
                /\ available_df' = EmptyFrame
                /\ UNCHANGED stats
    /\ pc' = "slider"
    /\ UNCHANGED <<snapshot, providerCalls, graph, edgeErrors, successes,
                   num_routes, i, orig_node, dest_node, route, polylines,
                   routeGreen, routeRed, pathWarnings, routeErrors, parkRed,
                   parkGreen, rendered>>

ClassifyUpload == Classify(MaxRows)

ClassifyNoUpload ==
    /\ pc = "classify"
    /\ uploaded_file' = FALSE
    /\ congested_df' = EmptyFrame
    /\ available_df' = EmptyFrame
    /\ pc' = "slider"
    /\ UNCHANGED <<snapshot, providerCalls, graph, edgeErrors, successes, df,
                   schemaWarnings, stats, num_routes, i, orig_node, dest_node, route,
                   polylines, routeGreen, routeRed, pathWarnings, routeErrors,
                   parkRed, parkGreen, rendered>>

(* ---------------- line 63: the slider ---------------- *)
ChooseRoutes ==
    /\ pc = "slider"
    /\ num_routes' \in MinRoutes..MaxRoutes
    /\ pc' = "loop"
    /\ UNCHANGED <<snapshot, providerCalls, graph, edgeErrors, successes,
                   uploaded_file, df, congested_df, available_df,
                   schemaWarnings, stats, i, orig_node, dest_node, route, polylines,
                   routeGreen, routeRed, pathWarnings, routeErrors, parkRed,
                   parkGreen, rendered>>

(* ---------------- lines 72-110: one iteration of the route loop -------- *)
LoopFrame == <<snapshot, providerCalls, graph, edgeErrors, successes,
               uploaded_file, df, congested_df, available_df, schemaWarnings,
               stats, num_routes, parkRed, parkGreen, rendered>>

(* variant: the except clause swallows the exception without a message *)
IterationRaises_Silent ==
    /\ pc = "loop"
    /\ i < num_routes
    /\ graph.nodes = {}
    /\ i' = i + 1
    /\ pc' = "loop"
    /\ UNCHANGED <<orig_node, dest_node, route, polylines, routeGreen,
                   routeRed, pathWarnings, routeErrors>>
    /\ UNCHANGED LoopFrame

(* random.choice of an empty list raises IndexError, caught at line 109.   *)
IterationRaises ==
    /\ pc = "loop"
    /\ i < num_routes
    /\ graph.nodes = {}
    /\ i' = i + 1
    /\ routeErrors' = routeErrors + 1
    /\ pc' = "loop"
    /\ UNCHANGED <<orig_node, dest_node, route, polylines, routeGreen,
                   routeRed, pathWarnings>>
    /\ UNCHANGED LoopFrame

IterationRoute ==
    /\ pc = "loop"
    /\ i < num_routes
    /\ \E o \in graph.nodes, d \in graph.nodes :
        /\ has_path(graph, o, d)
        /\ orig_node' = o
        /\ dest_node' = d
        /\ route' \in SimplePaths(graph, o, d)
    /\ i' = i + 1
    /\ polylines' = polylines + 1
    /\ routeGreen' = routeGreen + 1
    /\ routeRed' = routeRed + 1
    /\ pc' = "loop"
    /\ UNCHANGED <<pathWarnings, routeErrors>>
    /\ UNCHANGED LoopFrame

(* variant: an unreachable pair makes the sampler drop the destination    *)
(* node from the network                                                   *)
IterationNoPath_Prunes ==
    /\ pc = "loop"
    /\ i < num_routes
    /\ \E o \in graph.nodes, d \in graph.nodes :
        /\ ~has_path(graph, o, d)
        /\ orig_node' = o
        /\ dest_node' = d
        /\ graph' = [graph EXCEPT !.nodes = @ \ {d},
                                  !.edges = { e \in @ : e[1] # d /\ e[2] # d }]
    /\ i' = i + 1
    /\ pathWarnings' = pathWarnings + 1
    /\ pc' = "loop"
    /\ UNCHANGED <<route, polylines, routeGreen, routeRed, routeErrors>>
    /\ UNCHANGED <<snapshot, providerCalls, edgeErrors, successes,
                   uploaded_file, df, congested_df, available_df,
                   schemaWarnings, stats, num_routes, parkRed, parkGreen,
                   rendered>>

IterationNoPath ==
    /\ pc = "loop"
    /\ i < num_routes
    /\ \E o \in graph.nodes, d \in graph.nodes :
        /\ ~has_path(graph, o, d)
        /\ orig_node' = o
        /\ dest_node' = d
    /\ i' = i + 1
    /\ pathWarnings' = pathWarnings + 1
    /\ pc' = "loop"
    /\ UNCHANGED <<route, polylines, routeGreen, routeRed, routeErrors>>
    /\ UNCHANGED LoopFrame

LoopExit ==
    /\ pc = "loop"
    /\ i = num_routes
    /\ pc' = "markers"
    /\ UNCHANGED <<i, orig_node, dest_node, route, polylines, routeGreen,
                   routeRed, pathWarnings, routeErrors>>
    /\ UNCHANGED LoopFrame

(* ---------------- lines 113-128: parking markers ---------------- *)
(* variant: the condition of line 113 written with "or" *)
MarkersWanted_Either(c, a) == ~IsEmpty(c) \/ ~IsEmpty(a)

MarkersWanted(c, a) == ~IsEmpty(c) /\ ~IsEmpty(a)

AddParkingMarkers ==
    /\ pc = "markers"
    /\ IF MarkersWanted(congested_df, available_df)
       THEN /\ parkRed' = parkRed + FrameLen(congested_df)
            /\ parkGreen' = parkGreen + FrameLen(available_df)
       ELSE UNCHANGED <<parkRed, parkGreen>>
    /\ pc' = "render"
    /\ UNCHANGED <<snapshot, providerCalls, graph, edgeErrors, successes,
                   uploaded_file, df, congested_df, available_df,
                   schemaWarnings, stats, num_routes, i, orig_node, dest_node, route,
                   polylines, routeGreen, routeRed, pathWarnings, routeErrors,
                   rendered>>

(* ---------------- line 131: folium_static(m) ---------------- *)
Render ==
    /\ pc = "render"
    /\ rendered' = TRUE
    /\ pc' = "done"
    /\ UNCHANGED <<snapshot, providerCalls, graph, edgeErrors, successes,
                   uploaded_file, df, congested_df, available_df,
                   schemaWarnings, stats, num_routes, i, orig_node, dest_node, route,
                   polylines, routeGreen, routeRed, pathWarnings, routeErrors,
                   parkRed, parkGreen>>

Next ==
    \/ LoadGraph
    \/ LoadGraphRaises
    \/ ValidateGraph
    \/ ClassifyUpload
    \/ ClassifyNoUpload
    \/ ChooseRoutes
    \/ IterationRaises
    \/ IterationRoute
    \/ IterationNoPath
    \/ LoopExit
    \/ AddParkingMarkers
    \/ Render

Spec == Init /\ [][Next]_vars

(* ---------------- the classifier on its own ---------------- *)
(* The script has reached the data-extraction block: the network is loaded *)
(* and validated, nothing else has run.  The upload may have up to         *)
(* MaxClassifyRows rows.                                                   *)
InitClassify ==
    /\ pc = "classify"
    /\ snapshot \in BOOLEAN
    /\ providerCalls = 1
    /\ graph \in Graphs
    /\ edgeErrors = (IF Cardinality(graph.edges) = 0 THEN 1 ELSE 0)
    /\ successes = 1 - edgeErrors
    /\ uploaded_file = FALSE
    /\ df = NoFrame
    /\ congested_df = EmptyFrame
    /\ available_df = EmptyFrame
    /\ schemaWarnings = 0
    /\ stats = NoStats
    /\ num_routes = None
    /\ i = 0
    /\ orig_node = None
    /\ dest_node = None
    /\ route = << >>
    /\ polylines = 0
    /\ routeGreen = 0
    /\ routeRed = 0
    /\ pathWarnings = 0
    /\ routeErrors = 0
    /\ parkRed = 0
    /\ parkGreen = 0
    /\ rendered = FALSE

ClassifyLargeUpload == Classify(MaxClassifyRows)

NextClassify ==
    \/ ClassifyLargeUpload
    \/ ClassifyNoUpload

SpecClassify == InitClassify /\ [][NextClassify]_vars

(***************************************************************************)
(* Properties                                                              *)
(***************************************************************************)
Classified == graph.loaded /\ pc \notin {"load", "validate", "classify"}
LoopOver == pc \in {"markers", "render", "done"}
MissingColumns == uploaded_file /\ ~({"Latitude", "Longitude", "Action"} \subseteq df.columns)
NoTwoNodesConnected(g) ==
    \A a, b \in g.nodes : a # b => ~has_path(g, a, b)

(* C1: once a network with zero edges or fewer than 2 nodes is loaded, no  *)
(* route-sampling iteration runs and no map is rendered.                   *)
C1_HaltsOnDegenerateNetwork ==
    (graph.loaded /\ (graph.edges = {} \/ Cardinality(graph.nodes) < 2))
        => (i = 0 /\ ~rendered)

(* C2: with no snapshot and a provider that fails, obtaining the network   *)
(* ends after exactly 3 provider calls in a Failure outcome, not a crash.  *)
C2_ThreeCallsThenFailure ==
    (~snapshot /\ pc # "load" /\ ~graph.loaded)
        => (providerCalls = 3 /\ pc = "failure")

(* C3: when a snapshot exists, the network is obtained without any call to *)
(* the remote provider.                                                    *)
C3_SnapshotMeansNoFetch ==
    (snapshot /\ pc # "load") => providerCalls = 0

(* C4: for an upload with the three required columns, a row is in the      *)
(* congested set exactly when its Action is Searching or Left and in the   *)
(* available set exactly when it is Parked; the sets are disjoint, other   *)
(* rows are in neither, and the written counts are the sizes of the sets.  *)
C4_Classifier ==
    (Classified /\ uploaded_file /\ {"Latitude", "Longitude", "Action"} \subseteq df.columns)
        => /\ DOMAIN congested_df \subseteq DOMAIN df.rows
           /\ DOMAIN available_df \subseteq DOMAIN df.rows
           /\ \A k \in DOMAIN df.rows :
                /\ k \in DOMAIN congested_df <=> df.rows[k] \in {"Searching", "Left"}
                /\ k \in DOMAIN available_df <=> df.rows[k] = "Parked"
                /\ df.rows[k] \notin {"Searching", "Left", "Parked"}
                     => k \notin DOMAIN congested_df \cup DOMAIN available_df
           /\ \A k \in DOMAIN congested_df : congested_df[k] = df.rows[k]
           /\ \A k \in DOMAIN available_df : available_df[k] = df.rows[k]
           /\ DOMAIN congested_df \cap DOMAIN available_df = {}
           /\ stats = << Cardinality({ k \in DOMAIN df.rows : df.rows[k] \in {"Searching", "Left"} }),
                         Cardinality({ k \in DOMAIN df.rows : df.rows[k] = "Parked" }) >>

C4_Witness ==
    /\ pc = "slider"
    /\ uploaded_file
    /\ df.columns = {"Latitude", "Longitude", "Action"}
    /\ df.rows = <<"Searching", "Left", "Parked", "Parked">>
    /\ stats = <<2, 2>>
    /\ DOMAIN congested_df = {1, 2}
    /\ DOMAIN available_df = {3, 4}

(* C5: an upload missing a required column, and no upload at all, leave    *)
(* both sets empty; the missing-column case produces exactly one warning,  *)
(* nothing is raised, and the script goes on through the route loop to the *)
(* rendering of the map.                                                   *)
C5_MissingColumnsWarnAndContinue ==
    /\ (Classified /\ MissingColumns)
         => /\ IsEmpty(congested_df) /\ IsEmpty(available_df)
            /\ schemaWarnings = 1
            /\ stats = << >>
            /\ pc \in {"slider", "loop", "markers", "render", "done"}
            /\ pc = "done" => (rendered /\ i = num_routes /\ num_routes >= 1)
    /\ (Classified /\ ~uploaded_file)
         => /\ IsEmpty(congested_df) /\ IsEmpty(available_df)
            /\ schemaWarnings = 0
            /\ pc = "done" => (rendered /\ i = num_routes /\ num_routes >= 1)

C5_Witness ==
    /\ pc = "done"
    /\ uploaded_file
    /\ df.columns = {"Latitude", "Action"}
    /\ df.rows = <<"Parked", "Searching">>
    /\ schemaWarnings = 1
    /\ rendered

(* C6: on a network in which no two nodes are connected, N requested       *)
(* routes give exactly N "no path" warnings and no polyline.               *)
C6_DisconnectedNetworkOnlyWarns ==
    (LoopOver /\ Cardinality(graph.nodes) >= 2 /\ NoTwoNodesConnected(graph))
        => (pathWarnings = num_routes /\ polylines = 0)

(* C7: the origin and the destination picked in an iteration are distinct  *)
(* nodes, and no rendered route is a single-node path.                     *)
C7_DistinctEndpoints ==
    (Cardinality(graph.nodes) >= 2 /\ orig_node # None)
        => (orig_node # dest_node /\ Len(route) # 1)

(* C8: the loop runs exactly num_routes iterations; every iteration ends   *)
(* in exactly one of polyline+green+red marker, "no path" warning, or      *)
(* error message; so polylines + warnings + errors = iterations run, and   *)
(* green route markers = red route markers = polylines.                    *)
C8_OneOutcomePerIteration ==
    /\ pc \in {"loop", "markers", "render", "done"}
         => /\ num_routes \in 1..5
            /\ i \in 0..num_routes
            /\ polylines + pathWarnings + routeErrors = i
            /\ routeGreen = polylines
            /\ routeRed = polylines
    /\ LoopOver => i = num_routes

C8_Witness ==
    /\ pc = "done"
    /\ num_routes = 5
    /\ polylines = 3
    /\ pathWarnings = 2
    /\ routeGreen = 3
    /\ routeRed = 3

(* C9: the network is fetched exactly once and no later step changes its   *)
(* node set or edge set.                                                   *)
C9_NetworkLoadedOnceNeverMutated ==
    /\ [](graph.loaded => providerCalls = 1)
    /\ [][graph.loaded => graph' = graph]_vars

C9_Witness ==
    /\ pc = "done"
    /\ graph.loaded
    /\ graph.edges # {}
    /\ polylines > 0
    /\ pathWarnings > 0
    /\ parkRed > 0

(* C10: parking markers are added only when both the congested and the     *)
(* available set are non-empty, then one red per congested row and one     *)
(* green per available row; otherwise none at all.                         *)
C10_ParkingMarkersAllOrNothing ==
    /\ pc \in {"render", "done"}
         => IF DOMAIN congested_df # {} /\ DOMAIN available_df # {}
            THEN /\ parkRed = Cardinality(DOMAIN congested_df)
                 /\ parkGreen = Cardinality(DOMAIN available_df)
            ELSE parkRed = 0 /\ parkGreen = 0
    /\ pc \notin {"render", "done"} => (parkRed = 0 /\ parkGreen = 0)

C10_Witness ==
    /\ pc = "done"
    /\ df.rows = <<"Parked", "Parked">>
    /\ DOMAIN available_df = {1, 2}
    /\ IsEmpty(congested_df)
    /\ parkRed = 0
    /\ parkGreen = 0

====
